---- MODULE Spec2Model ----
(***************************************************************************)
(* Prediction service of the student drop-out prediction API (src/app.py). *)
(*                                                                         *)
(* The Flask process holds one global classifier, loaded once at start.    *)
(* /predict handles one feature record, /predict_batch a list of records.  *)
(* Probabilities are modelled in hundredths (0.7 is 70), JSON values by    *)
(* their kind and key set, and the classifier by what it returns or raises *)
(* for a well-typed row.                                                   *)
(***************************************************************************)
EXTENDS Integers, Sequences, FiniteSets, TLC

VARIABLES model, pc, request, response, log,
          CHAT_SESSIONS, OFFLINE_CONVERSATIONS, threads, mongo, client

vars == <<model, pc, request, response, log,
          CHAT_SESSIONS, OFFLINE_CONVERSATIONS, threads, mongo, client>>

(***************************************************************************)
(* Bounds of the model.                                                    *)
(***************************************************************************)
\* longest 'students' list a batch request carries
MaxBatch == 2

\* most chat turns (a user message and its reply) the two stores hold together
MaxTurns == 2

(***************************************************************************)
(* FEATURE_MAPPING: API feature name -> classifier column, in source order *)
(***************************************************************************)
FEATURE_MAPPING ==
  << <<"marital_status", "Marital status">>,
     <<"application_mode", "Application mode">>,
     <<"course", "Course">>,
     <<"daytime_evening_attendance", "Daytime/evening attendance">>,
     <<"previous_qualification", "Previous qualification">>,
     <<"nationality", "Nacionality">>,
     <<"mother_qualification", "Mother's qualification">>,
     <<"father_qualification", "Father's qualification">>,
     <<"mother_occupation", "Mother's occupation">>,
     <<"father_occupation", "Father's occupation">>,
     <<"displaced", "Displaced">>,
     <<"educational_special_needs", "Educational special needs">>,
     <<"debtor", "Debtor">>,
     <<"tuition_fees_up_to_date", "Tuition fees up to date">>,
     <<"gender", "Gender">>,
     <<"scholarship_holder", "Scholarship holder">>,
     <<"age_at_enrollment", "Age at enrollment">>,
     <<"international", "International">>,
     <<"curricular_units_1st_sem_credited", "Curricular units 1st sem (credited)">>,
     <<"curricular_units_1st_sem_enrolled", "Curricular units 1st sem (enrolled)">>,
     <<"curricular_units_1st_sem_evaluations", "Curricular units 1st sem (evaluations)">>,
     <<"curricular_units_1st_sem_approved", "Curricular units 1st sem (approved)">>,
     <<"curricular_units_1st_sem_grade", "Curricular units 1st sem (grade)">>,
     <<"curricular_units_2nd_sem_credited", "Curricular units 2nd sem (credited)">>,
     <<"curricular_units_2nd_sem_enrolled", "Curricular units 2nd sem (enrolled)">>,
     <<"curricular_units_2nd_sem_evaluations", "Curricular units 2nd sem (evaluations)">>,
     <<"curricular_units_2nd_sem_approved", "Curricular units 2nd sem (approved)">>,
     <<"curricular_units_2nd_sem_grade", "Curricular units 2nd sem (grade)">>,
     <<"unemployment_rate", "Unemployment rate">>,
     <<"inflation_rate", "Inflation rate">>,
     <<"gdp", "GDP">> >>

\* FEATURE_MAPPING.keys(), in insertion order
FeatureKeys == [n \in 1..Len(FEATURE_MAPPING) |-> FEATURE_MAPPING[n][1]]

RequiredKeys == {FeatureKeys[n] : n \in 1..Len(FeatureKeys)}

(***************************************************************************)
(* JSON values as request.get_json() hands them to the handlers.           *)
(*   object : keys is its key set; typed says whether the feature values   *)
(*            are numbers the classifier can take                          *)
(*   array  : keys is the set of its (string) items                        *)
(*   number : a non-zero number; null : None                               *)
(***************************************************************************)
Obj(keys, typed) == [kind |-> "object", keys |-> keys, typed |-> typed]

JArray(items) == [kind |-> "array", keys |-> items, typed |-> TRUE]

JNumber == [kind |-> "number", keys |-> {}, typed |-> TRUE]

JNull == [kind |-> "null", keys |-> {}, typed |-> TRUE]

\* Python truth value: `not data` is the negation of this
Truthy(d) ==
  CASE d.kind = "object" -> d.keys # {}
    [] d.kind = "array" -> d.keys # {}
    [] d.kind = "number" -> TRUE
    [] OTHER -> FALSE

\* whether `key in d` evaluates; on a number or None it raises TypeError
SupportsIn(d) == d.kind \in {"object", "array"}

\* whether d[key] evaluates for a string key
SupportsSubscript(d) == d.kind = "object"

\* str(e) of the TypeError raised by `key in d`
InTypeError(d) ==
  IF d.kind = "null" THEN "argument of type 'NoneType' is not iterable"
  ELSE "argument of type 'int' is not iterable"

SubscriptTypeError == "list indices must be integers or slices, not str"

\* get_json() raises on a body that is not JSON
Malformed == [kind |-> "malformed", keys |-> {}, typed |-> TRUE]

(***************************************************************************)
(* The classifier (random_forest_model.pkl): an opaque capability.  For a  *)
(* row of numbers it returns outcome.label and outcome.proba, or raises;   *)
(* for a row holding a value it cannot convert it raises.  classes is      *)
(* model.classes_.                                                         *)
(***************************************************************************)
Outcome(label, proba) ==
  [predict_raises |-> FALSE, proba_raises |-> FALSE, label |-> label, proba |-> proba]

PredictRaises ==
  [predict_raises |-> TRUE, proba_raises |-> FALSE, label |-> "", proba |-> <<>>]

ProbaRaises ==
  [predict_raises |-> FALSE, proba_raises |-> TRUE, label |-> "Graduate", proba |-> <<>>]

Classifier(classes, outcome) == [loaded |-> TRUE, classes |-> classes, outcome |-> outcome]

\* load_model() returned None
None == [loaded |-> FALSE, classes |-> <<>>, outcome |-> PredictRaises]

ClassifierError == "classifier raised"

ConversionError == "could not convert string to float"

Normal(v) == [raised |-> FALSE, exc |-> "", value |-> v]

Raise(e) == [raised |-> TRUE, exc |-> e, value |-> 0]

\* model.predict(df)
ModelPredict(m, df) ==
  IF ~df.typed THEN Raise(ConversionError)
  ELSE IF m.outcome.predict_raises THEN Raise(ClassifierError)
  ELSE Normal(m.outcome.label)

\* model.predict_proba(df)
ModelPredictProba(m, df) ==
  IF ~df.typed THEN Raise(ConversionError)
  ELSE IF m.outcome.proba_raises THEN Raise(ClassifierError)
  ELSE Normal(m.outcome.proba)

(***************************************************************************)
(* The steps of handling one record, shared verbatim by predict and        *)
(* predict_batch.                                                          *)
(***************************************************************************)
\* faulty variant of the validation: a key that is no feature is reported too
MissingFeaturesStrict(d) ==
  SelectSeq(FeatureKeys, LAMBDA k : k \notin d.keys)
    \o (IF "student_id" \in d.keys THEN <<"student_id">> ELSE <<>>)

\* faulty variant of the validation loop: it stops at the first missing feature
MissingFeaturesFirst(d) ==
  LET all == SelectSeq(FeatureKeys, LAMBDA k : k \notin d.keys) IN
  IF all = <<>> THEN <<>> ELSE <<Head(all)>>

\* the validation loop: every feature of FEATURE_MAPPING absent from d, in order
MissingFeatures(d) == SelectSeq(FeatureKeys, LAMBDA k : k \notin d.keys)

\* the columns the classifier was trained with, in training order
feature_columns ==
  << "Marital status",
     "Application mode",
     "Course",
     "Daytime/evening attendance",
     "Previous qualification",
     "Nacionality",
     "Mother's qualification",
     "Father's qualification",
     "Mother's occupation",
     "Father's occupation",
     "Displaced",
     "Educational special needs",
     "Debtor",
     "Tuition fees up to date",
     "Gender",
     "Scholarship holder",
     "Age at enrollment",
     "International",
     "Curricular units 1st sem (credited)",
     "Curricular units 1st sem (enrolled)",
     "Curricular units 1st sem (evaluations)",
     "Curricular units 1st sem (approved)",
     "Curricular units 1st sem (grade)",
     "Curricular units 2nd sem (credited)",
     "Curricular units 2nd sem (enrolled)",
     "Curricular units 2nd sem (evaluations)",
     "Curricular units 2nd sem (approved)",
     "Curricular units 2nd sem (grade)",
     "Unemployment rate",
     "Inflation rate",
     "GDP" >>

\* faulty variant: the frame is built from the record's own items, which
\* arrive in another order than the mapping's
ToModelInputRecordOrder(d) ==
  [columns |-> [n \in 1..Len(FEATURE_MAPPING) |->
                  FEATURE_MAPPING[Len(FEATURE_MAPPING) + 1 - n][2]],
   typed |-> d.typed]

\* input_data / pd.DataFrame(input_data): one row, columns in FEATURE_MAPPING order
ToModelInput(d) ==
  [columns |-> [n \in 1..Len(FEATURE_MAPPING) |-> FEATURE_MAPPING[n][2]],
   typed |-> d.typed]

\* probabilities[str(class_name)] = float(prediction_proba[0][i]) over enumerate(classes)
Probabilities(classes, proba) ==
  IF Len(proba) < Len(classes) THEN Raise("index out of bounds")
  ELSE Normal([c \in {classes[n] : n \in 1..Len(classes)} |->
                 proba[CHOOSE n \in 1..Len(classes) :
                         /\ classes[n] = c
                         /\ \A k \in (n+1)..Len(classes) : classes[k] # c]])

\* probabilities.get("Dropout", 0)
DropoutProb(probabilities) ==
  IF "Dropout" \in DOMAIN probabilities THEN probabilities["Dropout"] ELSE 0

HighThreshold == 70

MediumThreshold == 40

CautionThreshold == 30

\* faulty variant of the risk level: the predicted label is not looked at
RiskLevelByProbability(prediction_str, probabilities) ==
  LET dropout_prob == DropoutProb(probabilities) IN
  IF dropout_prob > HighThreshold THEN "High"
  ELSE IF dropout_prob > MediumThreshold THEN "Medium"
  ELSE "Low"

\* faulty variant of the risk level: the thresholds are inclusive (>=)
RiskLevelInclusive(prediction_str, probabilities) ==
  LET dropout_prob == DropoutProb(probabilities) IN
  IF prediction_str = "Dropout"
    THEN IF dropout_prob >= HighThreshold THEN "High"
         ELSE IF dropout_prob >= MediumThreshold THEN "Medium"
         ELSE "Low"
    ELSE IF dropout_prob >= CautionThreshold THEN "Medium" ELSE "Low"

\* "Determine risk level"
RiskLevel(prediction_str, probabilities) ==
  LET dropout_prob == DropoutProb(probabilities) IN
  IF prediction_str = "Dropout"
    THEN IF dropout_prob > HighThreshold THEN "High"
         ELSE IF dropout_prob > MediumThreshold THEN "Medium"
         ELSE "Low"
    ELSE IF dropout_prob > CautionThreshold THEN "Medium" ELSE "Low"

\* float(max(prediction_proba[0]))
Confidence(proba) ==
  IF proba = <<>> THEN Raise("max() arg is an empty sequence")
  ELSE Normal(CHOOSE x \in {proba[n] : n \in 1..Len(proba)} :
                \A n \in 1..Len(proba) : proba[n] <= x)

Event(op, i) == [op |-> op, index |-> i]

\* faulty variant: an exception of predict_proba is swallowed and the handler
\* goes on with an empty probability vector
InferenceSwallowsProba(m, d, i) ==
  IF ~SupportsSubscript(d)
    THEN [raised |-> TRUE, exc |-> SubscriptTypeError, value |-> 0, log |-> <<>>]
  ELSE
  LET df == ToModelInput(d)
      prediction == ModelPredict(m, df)
      raw == ModelPredictProba(m, df)
      prediction_proba == IF raw.raised THEN Normal(<<>>) ELSE raw
  IN
  IF prediction.raised
    THEN [raised |-> TRUE, exc |-> prediction.exc, value |-> 0,
          log |-> <<Event("predict", i)>>]
  ELSE LET calls == <<Event("predict", i), Event("predict_proba", i)>>
           probabilities == Probabilities(m.classes, prediction_proba.value) IN
  IF probabilities.raised
    THEN [raised |-> TRUE, exc |-> probabilities.exc, value |-> 0, log |-> calls]
  ELSE LET confidence == Confidence(prediction_proba.value) IN
  IF confidence.raised
    THEN [raised |-> TRUE, exc |-> confidence.exc, value |-> 0, log |-> calls]
  ELSE [raised |-> FALSE, exc |-> "",
        value |-> [prediction |-> prediction.value,
                   probabilities |-> probabilities.value,
                   risk_level |-> RiskLevel(prediction.value, probabilities.value),
                   confidence |-> confidence.value],
        log |-> calls]

\* From "Convert input to DataFrame" to the success fields, for a validated
\* record d at index i: value holds the fields, log the classifier calls made.
Inference(m, d, i) ==
  IF ~SupportsSubscript(d)
    THEN [raised |-> TRUE, exc |-> SubscriptTypeError, value |-> 0, log |-> <<>>]
  ELSE
  LET df == ToModelInput(d)
      prediction == ModelPredict(m, df)
      prediction_proba == ModelPredictProba(m, df)
  IN
  IF prediction.raised
    THEN [raised |-> TRUE, exc |-> prediction.exc, value |-> 0,
          log |-> <<Event("predict", i)>>]
  ELSE LET calls == <<Event("predict", i), Event("predict_proba", i)>> IN
  IF prediction_proba.raised
    THEN [raised |-> TRUE, exc |-> prediction_proba.exc, value |-> 0, log |-> calls]
  ELSE LET probabilities == Probabilities(m.classes, prediction_proba.value) IN
  IF probabilities.raised
    THEN [raised |-> TRUE, exc |-> probabilities.exc, value |-> 0, log |-> calls]
  ELSE LET confidence == Confidence(prediction_proba.value) IN
  IF confidence.raised
    THEN [raised |-> TRUE, exc |-> confidence.exc, value |-> 0, log |-> calls]
  ELSE [raised |-> FALSE, exc |-> "",
        value |-> [prediction |-> prediction.value,
                   probabilities |-> probabilities.value,
                   risk_level |-> RiskLevel(prediction.value, probabilities.value),
                   confidence |-> confidence.value],
        log |-> calls]

(***************************************************************************)
(* Responses: jsonify(body), code.  An error text is the f-string's fixed  *)
(* part, args what it interpolates (the missing features, or str(e)).      *)
(***************************************************************************)
ErrorBody(text, args) == [error |-> [text |-> text, args |-> args], status |-> "error"]

Resp(body, code) == [body |-> body, code |-> code]

ModelNotLoaded == Resp(ErrorBody("Model not loaded", <<>>), 500)

BadRequest == "400 Bad Request: Failed to decode JSON object"

(***************************************************************************)
(* predict: the /predict handler on request body data.                     *)
(***************************************************************************)
\* the handler once the model is known to be loaded: "Get input data" onwards
PredictLoaded(m, data) ==
  LET got == <<Event("get_json", 0)>> IN
  IF data.kind = "malformed"
    THEN [response |-> Resp(ErrorBody("Prediction failed", <<BadRequest>>), 500),
          log |-> got]
  ELSE IF ~Truthy(data)
    THEN [response |-> Resp(ErrorBody("No input data provided", <<>>), 400), log |-> got]
  ELSE LET validating == Append(got, Event("validate", 0)) IN
  IF ~SupportsIn(data)
    THEN [response |-> Resp(ErrorBody("Prediction failed", <<InTypeError(data)>>), 500),
          log |-> validating]
  ELSE LET missing_features == MissingFeatures(data) IN
  IF missing_features # <<>>
    THEN [response |-> Resp(ErrorBody("Missing required features", missing_features), 400),
          log |-> validating]
  ELSE LET r == Inference(m, data, 0) IN
  IF r.raised
    THEN [response |-> Resp(ErrorBody("Prediction failed", <<r.exc>>), 500),
          log |-> validating \o r.log]
  ELSE [response |-> Resp([prediction |-> r.value.prediction,
                           probabilities |-> r.value.probabilities,
                           risk_level |-> r.value.risk_level,
                           confidence |-> r.value.confidence,
                           status |-> "success"], 200),
        log |-> validating \o r.log]

predict(m, data) ==
  IF ~m.loaded THEN [response |-> ModelNotLoaded, log |-> <<>>]
  ELSE PredictLoaded(m, data)

(***************************************************************************)
(* predict_batch: the /predict_batch handler.                              *)
(***************************************************************************)
\* faulty variant: the error entry keeps the risk level set before the failure
ErrorEntryPartial(i, text, args) ==
  [index |-> i, error |-> [text |-> text, args |-> args], risk_level |-> "Low",
   status |-> "error"]

ErrorEntry(i, text, args) ==
  [index |-> i, error |-> [text |-> text, args |-> args], status |-> "error"]

SuccessEntry(i, fields) ==
  [index |-> i,
   prediction |-> fields.prediction,
   probabilities |-> fields.probabilities,
   risk_level |-> fields.risk_level,
   confidence |-> fields.confidence,
   status |-> "success"]

\* faulty variant of an iteration: the classifier is called before the record
\* is validated
ProcessStudentPredictFirst(m, student_data, i) ==
  LET r == Inference(m, student_data, i)
      trace == r.log \o <<Event("validate", i)>>
  IN
  IF ~SupportsIn(student_data)
    THEN [entry |-> ErrorEntry(i, "Prediction failed", <<InTypeError(student_data)>>),
          log |-> <<Event("validate", i)>>]
  ELSE IF MissingFeatures(student_data) # <<>>
    THEN [entry |-> ErrorEntry(i, "Missing required features",
                               MissingFeatures(student_data)),
          log |-> trace]
  ELSE IF r.raised
    THEN [entry |-> ErrorEntry(i, "Prediction failed", <<r.exc>>), log |-> trace]
  ELSE [entry |-> SuccessEntry(i, r.value), log |-> trace]

\* faulty variant of an iteration: after a classifier exception the
\* prediction is tried once more
ProcessStudentRetry(m, student_data, i) ==
  LET validating == <<Event("validate", i)>> IN
  IF ~SupportsIn(student_data)
    THEN [entry |-> ErrorEntry(i, "Prediction failed", <<InTypeError(student_data)>>),
          log |-> validating]
  ELSE IF MissingFeatures(student_data) # <<>>
    THEN [entry |-> ErrorEntry(i, "Missing required features",
                               MissingFeatures(student_data)),
          log |-> validating]
  ELSE LET r == Inference(m, student_data, i) IN
  IF r.raised
    THEN [entry |-> ErrorEntry(i, "Prediction failed", <<r.exc>>),
          log |-> validating \o r.log \o r.log]
  ELSE [entry |-> SuccessEntry(i, r.value), log |-> validating \o r.log]

\* one iteration of `for i, student_data in enumerate(students)`, with its
\* own try/except: the entry appended to results and the calls made
ProcessStudent(m, student_data, i) ==
  LET validating == <<Event("validate", i)>> IN
  IF ~SupportsIn(student_data)
    THEN [entry |-> ErrorEntry(i, "Prediction failed", <<InTypeError(student_data)>>),
          log |-> validating]
  ELSE LET missing_features == MissingFeatures(student_data) IN
  IF missing_features # <<>>
    THEN [entry |-> ErrorEntry(i, "Missing required features", missing_features),
          log |-> validating]
  ELSE LET r == Inference(m, student_data, i) IN
  IF r.raised
    THEN [entry |-> ErrorEntry(i, "Prediction failed", <<r.exc>>),
          log |-> validating \o r.log]
  ELSE [entry |-> [index |-> i,
                   prediction |-> r.value.prediction,
                   probabilities |-> r.value.probabilities,
                   risk_level |-> r.value.risk_level,
                   confidence |-> r.value.confidence,
                   status |-> "success"],
        log |-> validating \o r.log]

\* faulty variant of the loop: the first failed record ends it (break)
RECURSIVE BatchLoopBreak(_, _, _, _)
BatchLoopBreak(m, students, n, acc) ==
  IF n > Len(students) THEN acc
  ELSE LET step == ProcessStudent(m, students[n], n - 1)
           next == [results |-> Append(acc.results, step.entry),
                    log |-> acc.log \o step.log]
       IN IF step.entry.status = "error" THEN next
          ELSE BatchLoopBreak(m, students, n + 1, next)

\* faulty variant of the loop: a failed record leaves no entry (continue)
RECURSIVE BatchLoopSkip(_, _, _, _)
BatchLoopSkip(m, students, n, acc) ==
  IF n > Len(students) THEN acc
  ELSE LET step == ProcessStudent(m, students[n], n - 1) IN
       BatchLoopSkip(m, students, n + 1,
                     [results |-> IF step.entry.status = "error" THEN acc.results
                                  ELSE Append(acc.results, step.entry),
                      log |-> acc.log \o step.log])

\* faulty variant of the loop: missing_features is created once, before the
\* loop, so what one record lacks is still listed for the records after it
RECURSIVE StickyMissing(_, _)
StickyMissing(students, n) ==
  IF n = 0 THEN <<>>
  ELSE StickyMissing(students, n - 1)
         \o (IF SupportsIn(students[n]) THEN MissingFeatures(students[n]) ELSE <<>>)

RECURSIVE BatchLoopSticky(_, _, _, _)
BatchLoopSticky(m, students, n, acc) ==
  IF n > Len(students) THEN acc
  ELSE LET step == ProcessStudent(m, students[n], n - 1)
           sticky == StickyMissing(students, n)
           entry == IF SupportsIn(students[n]) /\ sticky # <<>>
                      THEN ErrorEntry(n - 1, "Missing required features", sticky)
                      ELSE step.entry
       IN BatchLoopSticky(m, students, n + 1,
                          [results |-> Append(acc.results, entry),
                           log |-> acc.log \o step.log])

\* the for loop from position n (index n-1) on, acc what it has built so far
RECURSIVE BatchLoop(_, _, _, _)
BatchLoop(m, students, n, acc) ==
  IF n > Len(students) THEN acc
  ELSE LET step == ProcessStudent(m, students[n], n - 1) IN
       BatchLoop(m, students, n + 1,
                 [results |-> Append(acc.results, step.entry),
                  log |-> acc.log \o step.log])

CountStatus(results, status) == Len(SelectSeq(results, LAMBDA r : r.status = status))

\* faulty variant: no try/except inside the loop, so a record's exception
\* reaches the handler's outer except
BatchOutcomeNoInnerTry(m, students, got) ==
  LET done == BatchLoop(m, students, 1, [results |-> <<>>, log |-> got])
      thrown == {n \in 1..Len(done.results) :
                   /\ done.results[n].status = "error"
                   /\ done.results[n].error.text = "Prediction failed"}
  IN
  IF thrown # {}
    THEN [response |-> Resp(ErrorBody("Batch prediction failed",
                                      done.results[CHOOSE n \in thrown :
                                                     \A k \in thrown : n <= k].error.args),
                            500),
          log |-> done.log]
  ELSE [response |-> Resp([results |-> done.results,
                           total_processed |-> Len(students),
                           successful |-> CountStatus(done.results, "success"),
                           failed |-> CountStatus(done.results, "error"),
                           status |-> "success"], 200),
        log |-> done.log]

\* results = [] ... return jsonify({"results": ...}): the loop and the outcome
BatchOutcome(m, students, got) ==
  LET done == BatchLoop(m, students, 1, [results |-> <<>>, log |-> got]) IN
  [response |-> Resp([results |-> done.results,
                      total_processed |-> Len(students),
                      successful |-> CountStatus(done.results, "success"),
                      failed |-> CountStatus(done.results, "error"),
                      status |-> "success"], 200),
   log |-> done.log]

\* the handler once the model is known to be loaded: "Get input data" onwards
BatchLoaded(m, data) ==
  LET got == <<Event("get_json", 0)>> IN
  IF data.kind = "malformed"
    THEN [response |-> Resp(ErrorBody("Batch prediction failed", <<BadRequest>>), 500),
          log |-> got]
  ELSE IF ~Truthy(data)
    THEN [response |-> Resp(ErrorBody("No students data provided", <<>>), 400), log |-> got]
  ELSE IF ~SupportsIn(data)
    THEN [response |-> Resp(ErrorBody("Batch prediction failed", <<InTypeError(data)>>), 500),
          log |-> got]
  ELSE IF "students" \notin data.keys
    THEN [response |-> Resp(ErrorBody("No students data provided", <<>>), 400), log |-> got]
  ELSE IF ~SupportsSubscript(data)
    THEN [response |-> Resp(ErrorBody("Batch prediction failed", <<SubscriptTypeError>>), 500),
          log |-> got]
  ELSE LET students == data.students IN
  IF ~students.is_list
    THEN [response |-> Resp(ErrorBody("Students data must be a list", <<>>), 400), log |-> got]
  ELSE BatchOutcome(m, students.items, got)

\* faulty variant: the body is looked at before the model
predict_batchBodyFirst(m, data) ==
  IF data.kind # "malformed" /\ ~Truthy(data)
    THEN [response |-> Resp(ErrorBody("No students data provided", <<>>), 400),
          log |-> <<Event("get_json", 0)>>]
  ELSE IF ~m.loaded THEN [response |-> ModelNotLoaded, log |-> <<>>]
  ELSE BatchLoaded(m, data)

predict_batch(m, data) ==
  IF ~m.loaded THEN [response |-> ModelNotLoaded, log |-> <<>>]
  ELSE BatchLoaded(m, data)

(***************************************************************************)
(* The chat handlers.  CHAT_SESSIONS and OFFLINE_CONVERSATIONS map a       *)
(* session id to its history, a sequence of turns.  A missing field, None  *)
(* and the empty string are all "" here: the handlers only test them for   *)
(* truth.                                                                  *)
(***************************************************************************)
SYSTEM_PROMPT ==
  "You are a helpful student counselor. Provide empathetic and practical advice for academic stress, family pressure, and dropout prevention."

Turn(role, content) == [role |-> role, content |-> content]

\* CHAT_SESSIONS = {} / OFFLINE_CONVERSATIONS = {}
NoSessions == [s \in {} |-> <<>>]

\* store[k] = v
Put(store, k, v) == [s \in DOMAIN store \cup {k} |-> IF s = k THEN v ELSE store[s]]

\* faulty variant: the whole store is emptied
PopAll(store, k) == [s \in {} |-> <<>>]

\* store.pop(k, None)
Pop(store, k) == [s \in DOMAIN store \ {k} |-> store[s]]

\* history[-n:]
Last(history, n) ==
  IF Len(history) <= n THEN history
  ELSE SubSeq(history, Len(history) - n + 1, Len(history))

\* data.get(k) on `get_json() or {}`
Field(data, k) == IF data.kind = "object" /\ k \in data.keys THEN data[k] ELSE ""

\* str.strip()
Strip(text) == IF text = "   " THEN "" ELSE text

\* a truthy body that is no mapping has no .get
NoGet(data) == Truthy(data) /\ data.kind # "object"

GetAttributeError == "'int' object has no attribute 'get'"

GeminiUnavailable == "I'm currently unavailable because the AI service isn't configured."

GeminiFailed == "I couldn't respond right now. Please try again in a moment."

GeminiText == "resp.text"

\* faulty variant: chat() declares `global model`, so an unconfigured Gemini
\* leaves the process without a classifier
GlobalAfterChatRebound(m, gemini) == IF gemini = "unconfigured" THEN None ELSE m

\* the global `model` after chat() ran `model = get_gemini_model()`: chat has
\* no `global model`, the name is local to the call and the global keeps m
GlobalAfterChat(m, gemini) == m

\* faulty variant of chat(): when generate_content raises, the handler fails
\* and the user message stays without a reply
chatDropsReply(sessions, data, gemini) ==
  IF NoGet(data)
    THEN [response |-> Resp(ErrorBody("Chat failed", <<GetAttributeError>>), 500),
          sessions |-> sessions]
  ELSE LET session_id == Field(data, "session_id")
           message == Strip(Field(data, "message")) IN
  IF session_id = "" \/ message = ""
    THEN [response |-> Resp(ErrorBody("session_id and message are required", <<>>), 400),
          sessions |-> sessions]
  ELSE LET opened == IF session_id \in DOMAIN sessions THEN sessions
                     ELSE Put(sessions, session_id, <<Turn("system", SYSTEM_PROMPT)>>)
           asked == Append(opened[session_id], Turn("user", message))
           assistant_text == IF gemini = "unconfigured" THEN GeminiUnavailable ELSE GeminiText
           history == Append(asked, Turn("assistant", assistant_text))
  IN IF gemini = "raises"
       THEN [response |-> Resp([reply |-> GeminiFailed,
                                history |-> Last(asked, 20),
                                status |-> "success"], 200),
             sessions |-> Put(opened, session_id, asked)]
     ELSE [response |-> Resp([reply |-> assistant_text,
                              history |-> Last(history, 20),
                              status |-> "success"], 200),
           sessions |-> Put(opened, session_id, history)]

\* chat(): gemini is what get_gemini_model() and generate_content do this time
chat(sessions, data, gemini) ==
  IF NoGet(data)
    THEN [response |-> Resp(ErrorBody("Chat failed", <<GetAttributeError>>), 500),
          sessions |-> sessions]
  ELSE LET session_id == Field(data, "session_id")
           message == Strip(Field(data, "message")) IN
  IF session_id = "" \/ message = ""
    THEN [response |-> Resp(ErrorBody("session_id and message are required", <<>>), 400),
          sessions |-> sessions]
  ELSE LET opened == IF session_id \in DOMAIN sessions THEN sessions
                     ELSE Put(sessions, session_id, <<Turn("system", SYSTEM_PROMPT)>>)
           asked == Append(opened[session_id], Turn("user", message))
           assistant_text == CASE gemini = "unconfigured" -> GeminiUnavailable
                               [] gemini = "raises" -> GeminiFailed
                               [] OTHER -> GeminiText
           history == Append(asked, Turn("assistant", assistant_text))
  IN [response |-> Resp([reply |-> assistant_text,
                         history |-> Last(history, 20),
                         status |-> "success"], 200),
      sessions |-> Put(opened, session_id, history)]

\* the keywords of rule_based_reply that occur in the lower-cased message
Mentions(user_message) ==
  CASE user_message = "my exams make me anxious" -> {"exams", "exam", "anxious"}
    [] user_message = "what about my future" -> {"future"}
    [] user_message = "exam stress makes me want to kill myself"
         -> {"exam", "stress", "kill myself"}
    [] user_message = "i think about suicide" -> {"suicide"}
    [] OTHER -> {}

rule_based_reply(user_message) ==
  LET m == Mentions(user_message) IN
  IF m \cap {"stress", "stressed", "anxious", "anxiety"} # {}
    THEN "I'm sorry you're feeling stressed."
  ELSE IF m \cap {"exam", "exams", "test"} # {}
    THEN "Exams can be overwhelming."
  ELSE IF m \cap {"family", "parents", "home"} # {}
    THEN "Family pressure is tough."
  ELSE IF m \cap {"career", "job", "future"} # {}
    THEN "Explore interests through small projects and short courses."
  ELSE IF m \cap {"suicide", "hurt myself", "kill myself", "die by"} # {}
    THEN "I'm really sorry you're feeling this way."
  ELSE "Thanks for sharing. Could you tell me a bit more so I can help better?"

PlainError(text, args) == [error |-> [text |-> text, args |-> args]]

\* faulty variant of chat_offline(): the session is opened before the message
\* is looked at
chat_offlineOpensFirst(conversations, data, uuid) ==
  IF NoGet(data)
    THEN [response |-> Resp(PlainError("Chat offline failed", <<GetAttributeError>>), 500),
          conversations |-> conversations]
  ELSE LET message == Strip(Field(data, "message"))
           session_id == IF Field(data, "session_id") = "" THEN uuid
                         ELSE Field(data, "session_id")
           opened == IF session_id \in DOMAIN conversations THEN conversations
                     ELSE Put(conversations, session_id, <<Turn("system", SYSTEM_PROMPT)>>)
           assistant_text == rule_based_reply(message)
           history == opened[session_id]
                        \o <<Turn("user", message), Turn("assistant", assistant_text)>>
  IN IF message = ""
       THEN [response |-> Resp(PlainError("No message provided", <<>>), 400),
             conversations |-> opened]
     ELSE [response |-> Resp([session_id |-> session_id,
                              reply |-> assistant_text,
                              history |-> Last(history, 30)], 200),
           conversations |-> Put(opened, session_id, history)]

\* chat_offline(): uuid is what uuid.uuid4() gives when the body names no session
chat_offline(conversations, data, uuid) ==
  IF NoGet(data)
    THEN [response |-> Resp(PlainError("Chat offline failed", <<GetAttributeError>>), 500),
          conversations |-> conversations]
  ELSE LET message == Strip(Field(data, "message")) IN
  IF message = ""
    THEN [response |-> Resp(PlainError("No message provided", <<>>), 400),
          conversations |-> conversations]
  ELSE LET session_id == IF Field(data, "session_id") = "" THEN uuid
                         ELSE Field(data, "session_id")
           opened == IF session_id \in DOMAIN conversations THEN conversations
                     ELSE Put(conversations, session_id, <<Turn("system", SYSTEM_PROMPT)>>)
           assistant_text == rule_based_reply(message)
           history == opened[session_id]
                        \o <<Turn("user", message), Turn("assistant", assistant_text)>>
  IN [response |-> Resp([session_id |-> session_id,
                         reply |-> assistant_text,
                         history |-> Last(history, 30)], 200),
      conversations |-> Put(opened, session_id, history)]

reset_offline_session(conversations, data) ==
  IF NoGet(data)
    THEN [response |-> Resp(PlainError(GetAttributeError, <<>>), 500),
          conversations |-> conversations]
  ELSE LET session_id == Field(data, "session_id") IN
  IF session_id = ""
    THEN [response |-> Resp(PlainError("session_id required", <<>>), 400),
          conversations |-> conversations]
  ELSE [response |-> Resp([status |-> "reset", session_id |-> session_id], 200),
        conversations |-> Pop(conversations, session_id)]

\* health_check()
health_check(m) == Resp([status |-> "healthy", model_loaded |-> m.loaded], 200)

(***************************************************************************)
(* The inputs the model draws from.                                        *)
(***************************************************************************)
\* records a 'students' list may hold: complete (numeric, non-numeric, with an
\* extra key), missing one key, missing two, empty, and two non-mappings
StudentRecords ==
  { Obj(RequiredKeys, TRUE),
    Obj(RequiredKeys, FALSE),
    Obj(RequiredKeys \cup {"student_id"}, TRUE),
    Obj(RequiredKeys \ {"course"}, TRUE),
    Obj(RequiredKeys \ {"course", "gdp"}, TRUE),
    Obj({}, TRUE),
    JNumber,
    JNull }

\* bodies of a /predict request
SingleBodies ==
  StudentRecords
    \cup {Obj(RequiredKeys \ S, TRUE) : S \in SUBSET {"marital_status", "course", "gdp"}}
    \cup {Obj({"student_id"}, TRUE), JArray({"course"}), Malformed}

StudentLists == UNION {[1..n -> StudentRecords] : n \in 0..MaxBatch}

NoStudents == [is_list |-> FALSE, items |-> <<>>]

WithStudents(d, students) ==
  [kind |-> d.kind, keys |-> d.keys, typed |-> d.typed, students |-> students]

\* bodies of a /predict_batch request: {"students": [...]} for every list, and
\* the bodies without a usable list
BatchBodies ==
  {WithStudents(Obj({"students"}, TRUE), [is_list |-> TRUE, items |-> l]) : l \in StudentLists}
    \cup {WithStudents(Obj({"students"}, TRUE), NoStudents),
          WithStudents(Obj({"student"}, TRUE), NoStudents),
          WithStudents(Obj({}, TRUE), NoStudents),
          WithStudents(JNull, NoStudents),
          WithStudents(JNumber, NoStudents),
          WithStudents(JArray({"students"}), NoStudents),
          WithStudents(JArray({"course"}), NoStudents),
          WithStudents(Malformed, NoStudents)}

Classes3 == <<"Dropout", "Enrolled", "Graduate">>

Classes2 == <<"Enrolled", "Graduate">>

\* Dropout probabilities (hundredths) around and on the three thresholds
DropoutGrid == {0, 20, 30, 35, 40, 50, 70, 75, 100}

\* what load_model() can return
Models ==
  {None}
    \cup {Classifier(Classes3, Outcome(l, <<p, 0, 100 - p>>)) :
            l \in {"Dropout", "Graduate"}, p \in DropoutGrid}
    \cup {Classifier(Classes2, Outcome(l, <<40, 60>>)) : l \in {"Dropout", "Graduate"}}
    \cup {Classifier(Classes3, PredictRaises),
          Classifier(Classes3, ProbaRaises),
          Classifier(Classes3, Outcome("Graduate", <<30, 70>>)),
          Classifier(Classes2, Outcome("Graduate", <<10, 20, 70>>))}

\* what the service and the concurrent specification start with
ServiceModels == {None, Classifier(Classes3, Outcome("Dropout", <<75, 0, 25>>))}

ChatBody(session_id, message) ==
  [kind |-> "object", keys |-> {"session_id", "message"}, typed |-> TRUE,
   session_id |-> session_id, message |-> message]

ResetBody(session_id) ==
  [kind |-> "object", keys |-> {"session_id"}, typed |-> TRUE, session_id |-> session_id]

\* message texts: none, whitespace only, and a text
Messages == {"", "   ", "hello"}

\* what uuid.uuid4() can give
Uuids == {"u1"}

ChatBodies ==
  {ChatBody(s, m) : s \in {"", "s1", "s2"}, m \in Messages} \cup {JNull, JNumber}

\* the messages sent to /chat_offline: those, and two that speak of self-harm
OfflineMessages ==
  Messages \cup {"exam stress makes me want to kill myself", "i think about suicide"}

OfflineBodies ==
  {ChatBody(s, m) : s \in {"", "s1"} \cup Uuids, m \in OfflineMessages} \cup {JNull, JNumber}

ResetBodies == {ResetBody(s) : s \in {"", "s1"} \cup Uuids} \cup {JNull, JNumber}

\* get_gemini_model() returns None; generate_content raises; or it answers
GeminiOutcomes == {"unconfigured", "raises", "answers"}

\* records and requests of the concurrent specification
ConcurrentRecords ==
  {Obj(RequiredKeys, TRUE), Obj(RequiredKeys, FALSE), Obj(RequiredKeys \ {"course"}, TRUE)}

ConcurrentRequests ==
  {[endpoint |-> "/predict", data |-> d] : d \in ConcurrentRecords \cup {JNull}}
    \cup {[endpoint |-> "/predict_batch",
           data |-> WithStudents(Obj({"students"}, TRUE), [is_list |-> TRUE, items |-> l])] :
            l \in UNION {[1..n -> ConcurrentRecords] : n \in 0..MaxBatch}}
    \cup {[endpoint |-> "/predict_batch", data |-> WithStudents(Obj({"students"}, TRUE), NoStudents)],
          [endpoint |-> "/predict_batch", data |-> WithStudents(JNull, NoStudents)]}

(***************************************************************************)
(* The state machine: the process after start-up.  In Spec and SpecService *)
(* it serves one request at a time: request, response and log describe the *)
(* request being answered.  In SpecConcurrent two worker threads serve     *)
(* prediction requests at once; threads holds each thread's frame.         *)
(***************************************************************************)
NoRequest == [endpoint |-> "", data |-> JNull]

NoResponse == Resp([status |-> ""], 0)

Threads == {1, 2}

IdleThread ==
  [pc |-> "idle", endpoint |-> "", data |-> JNull, i |-> 0, results |-> <<>>,
   response |-> NoResponse, overlapped |-> FALSE]

\* MONGODB_URI when neither the secrets nor the environment name one
DefaultUri == "mongodb://127.0.0.1:27017/"

\* the Streamlit process before get_mongodb_connection() is called
IdleMongo(uri) ==
  [pc |-> "idle", MONGODB_URI |-> uri, candidate_uris |-> <<>>, u |-> 1, attempt |-> 1,
   tried |-> <<>>, last_error |-> "", client |-> ""]

\* the batch page before a CSV file is uploaded
IdleClient == [stage |-> "idle", columns |-> {}, rows |-> <<>>, students_list |-> <<>>]

\* the module is imported: model = load_model(), the two stores are empty
Started(models) ==
  /\ model \in models
  /\ pc = "idle"
  /\ request = NoRequest
  /\ response = NoResponse
  /\ log = <<>>
  /\ CHAT_SESSIONS = NoSessions
  /\ OFFLINE_CONVERSATIONS = NoSessions
  /\ threads = [t \in Threads |-> IdleThread]
  /\ mongo = IdleMongo(DefaultUri)
  /\ client = IdleClient

Init == Started(Models)

\* faulty variant of POST /predict: the handler keeps the record it answered
\* in the offline store
PostPredictRemembering ==
  /\ pc = "idle"
  /\ \E data \in SingleBodies :
       LET r == predict(model, data) IN
       /\ request' = [endpoint |-> "/predict", data |-> data]
       /\ response' = r.response
       /\ log' = r.log
  /\ pc' = "responded"
  /\ OFFLINE_CONVERSATIONS' = Put(OFFLINE_CONVERSATIONS, "last", <<Turn("system", SYSTEM_PROMPT)>>)
  /\ UNCHANGED <<model, CHAT_SESSIONS, threads, mongo, client>>

\* POST /predict
PostPredict ==
  /\ pc = "idle"
  /\ \E data \in SingleBodies :
       LET r == predict(model, data) IN
       /\ request' = [endpoint |-> "/predict", data |-> data]
       /\ response' = r.response
       /\ log' = r.log
  /\ pc' = "responded"
  /\ UNCHANGED <<model, CHAT_SESSIONS, OFFLINE_CONVERSATIONS, threads, mongo, client>>

\* POST /predict_batch
PostPredictBatch ==
  /\ pc = "idle"
  /\ \E data \in BatchBodies :
       LET r == predict_batch(model, data) IN
       /\ request' = [endpoint |-> "/predict_batch", data |-> data]
       /\ response' = r.response
       /\ log' = r.log
  /\ pc' = "responded"
  /\ UNCHANGED <<model, CHAT_SESSIONS, OFFLINE_CONVERSATIONS, threads, mongo, client>>

\* GET /health
GetHealth ==
  /\ pc = "idle"
  /\ request' = [endpoint |-> "/health", data |-> JNull]
  /\ response' = health_check(model)
  /\ log' = <<>>
  /\ pc' = "responded"
  /\ UNCHANGED <<model, CHAT_SESSIONS, OFFLINE_CONVERSATIONS, threads, mongo, client>>

RECURSIVE CountTurns(_, _)
CountTurns(store, ids) ==
  IF ids = {} THEN 0
  ELSE LET s == CHOOSE x \in ids : TRUE IN
       (Len(store[s]) - 1) \div 2 + CountTurns(store, ids \ {s})

\* the turns held by the two stores together
Turns == CountTurns(CHAT_SESSIONS, DOMAIN CHAT_SESSIONS)
           + CountTurns(OFFLINE_CONVERSATIONS, DOMAIN OFFLINE_CONVERSATIONS)

\* POST /chat
PostChat ==
  /\ pc = "idle"
  /\ \E data \in ChatBodies, gemini \in GeminiOutcomes :
       LET r == chat(CHAT_SESSIONS, data, gemini) IN
       /\ r.response.code = 200 => Turns < MaxTurns
       /\ request' = [endpoint |-> "/chat", data |-> data]
       /\ response' = r.response
       /\ CHAT_SESSIONS' = r.sessions
       /\ model' = GlobalAfterChat(model, gemini)
  /\ log' = <<>>
  /\ pc' = "responded"
  /\ UNCHANGED <<OFFLINE_CONVERSATIONS, threads, mongo, client>>

\* POST /chat_offline
PostChatOffline ==
  /\ pc = "idle"
  /\ \E data \in OfflineBodies, uuid \in Uuids :
       LET r == chat_offline(OFFLINE_CONVERSATIONS, data, uuid) IN
       /\ r.response.code = 200 => Turns < MaxTurns
       /\ (r.response.code = 200 /\ Field(data, "session_id") = "") =>
            uuid \notin DOMAIN OFFLINE_CONVERSATIONS
       /\ request' = [endpoint |-> "/chat_offline", data |-> data]
       /\ response' = r.response
       /\ OFFLINE_CONVERSATIONS' = r.conversations
  /\ log' = <<>>
  /\ pc' = "responded"
  /\ UNCHANGED <<model, CHAT_SESSIONS, threads, mongo, client>>

\* POST /reset_offline_session
PostResetOffline ==
  /\ pc = "idle"
  /\ \E data \in ResetBodies :
       LET r == reset_offline_session(OFFLINE_CONVERSATIONS, data) IN
       /\ request' = [endpoint |-> "/reset_offline_session", data |-> data]
       /\ response' = r.response
       /\ OFFLINE_CONVERSATIONS' = r.conversations
  /\ log' = <<>>
  /\ pc' = "responded"
  /\ UNCHANGED <<model, CHAT_SESSIONS, threads, mongo, client>>

\* the response is sent and the handler's frame is gone; the globals stay
Respond ==
  /\ pc = "responded"
  /\ pc' = "idle"
  /\ request' = NoRequest
  /\ response' = NoResponse
  /\ log' = <<>>
  /\ UNCHANGED <<model, CHAT_SESSIONS, OFFLINE_CONVERSATIONS, threads, mongo, client>>

Next == PostPredict \/ PostPredictBatch \/ Respond

Spec == Init /\ [][Next]_vars

\* every endpoint of the service, one request at a time
InitService == Started(ServiceModels)

NextService ==
  \/ PostPredict
  \/ PostPredictBatch
  \/ GetHealth
  \/ PostChat
  \/ PostChatOffline
  \/ PostResetOffline
  \/ Respond

SpecService == InitService /\ [][NextService]_vars

(***************************************************************************)
(* Two threads of the server run prediction handlers at once.  A step is   *)
(* the start of a handler, one iteration of the batch loop, or the return. *)
(***************************************************************************)
\* faulty variant: results is one module-level list
ResultsOwnerShared(t) == 1

\* the frame that holds the `results` list thread t appends to: its own
ResultsOwner(t) == t

\* the request runs into `results = []` and the loop
ReachesLoop(m, endpoint, data) ==
  /\ endpoint = "/predict_batch"
  /\ m.loaded
  /\ data.kind = "object"
  /\ "students" \in data.keys
  /\ data.students.is_list

\* the jsonify after the loop
BatchResponse(results, students) ==
  Resp([results |-> results,
        total_processed |-> Len(students),
        successful |-> CountStatus(results, "success"),
        failed |-> CountStatus(results, "error"),
        status |-> "success"], 200)

\* the response of the request when nothing else runs
Alone(m, endpoint, data) ==
  IF endpoint = "/predict" THEN predict(m, data).response
  ELSE predict_batch(m, data).response

Overlaps(t) == \E u \in Threads \ {t} : threads[u].pc = "running"

\* a thread takes a request; a batch with a list starts with results = []
Begin(t) ==
  /\ threads[t].pc = "idle"
  /\ \E req \in ConcurrentRequests :
       LET started == [threads EXCEPT ![t] =
                         [pc |-> "running", endpoint |-> req.endpoint, data |-> req.data,
                          i |-> 0, results |-> <<>>, response |-> NoResponse,
                          overlapped |-> Overlaps(t)]]
       IN threads' = IF ReachesLoop(model, req.endpoint, req.data)
                       THEN [started EXCEPT ![ResultsOwner(t)].results = <<>>]
                     ELSE started
  /\ UNCHANGED <<model, pc, request, response, log, CHAT_SESSIONS, OFFLINE_CONVERSATIONS,
               mongo, client>>

\* one iteration of the batch loop
Iterate(t) ==
  LET me == threads[t] IN
  /\ me.pc = "running"
  /\ ReachesLoop(model, me.endpoint, me.data)
  /\ me.i < Len(me.data.students.items)
  /\ LET entry == ProcessStudent(model, me.data.students.items[me.i + 1], me.i).entry
         stepped == [threads EXCEPT ![t].i = me.i + 1,
                                    ![t].overlapped = me.overlapped \/ Overlaps(t)]
     IN threads' = [stepped EXCEPT ![ResultsOwner(t)].results = Append(@, entry)]
  /\ UNCHANGED <<model, pc, request, response, log, CHAT_SESSIONS, OFFLINE_CONVERSATIONS,
               mongo, client>>

\* the handler returns
Finish(t) ==
  LET me == threads[t]
      looping == ReachesLoop(model, me.endpoint, me.data) IN
  /\ me.pc = "running"
  /\ looping => me.i = Len(me.data.students.items)
  /\ threads' = [threads EXCEPT
                   ![t].pc = "done",
                   ![t].overlapped = me.overlapped \/ Overlaps(t),
                   ![t].response =
                     IF looping
                       THEN BatchResponse(threads[ResultsOwner(t)].results,
                                          me.data.students.items)
                     ELSE Alone(model, me.endpoint, me.data)]
  /\ UNCHANGED <<model, pc, request, response, log, CHAT_SESSIONS, OFFLINE_CONVERSATIONS,
               mongo, client>>

\* the response is sent, the thread is free again
Reply(t) ==
  /\ threads[t].pc = "done"
  /\ threads' = [threads EXCEPT ![t] = IdleThread]
  /\ UNCHANGED <<model, pc, request, response, log, CHAT_SESSIONS, OFFLINE_CONVERSATIONS,
               mongo, client>>

InitConcurrent == Started(ServiceModels)

NextConcurrent == \E t \in Threads : Begin(t) \/ Iterate(t) \/ Finish(t) \/ Reply(t)

SpecConcurrent == InitConcurrent /\ [][NextConcurrent]_vars

(***************************************************************************)
(* Two threads of the server run chat() at once.  A step is one statement  *)
(* of the handler that reads or writes CHAT_SESSIONS; session_id, message  *)
(* and assistant_text are locals of the thread's frame.                    *)
(***************************************************************************)
\* bodies of the concurrent /chat requests
ConcurrentChatBodies ==
  {ChatBody(s, m) : s \in {"s1", "s2"}, m \in {"hello", "are you there", "   "}}

\* the /chat requests that have not returned yet
ChatsRunning == {u \in Threads : threads[u].pc \notin {"idle", "done"}}

\* chat() is entered: the body is read and checked
ChatBegin(t) ==
  /\ threads[t].pc = "idle"
  /\ Turns + Cardinality(ChatsRunning) < MaxTurns
  /\ \E data \in ConcurrentChatBodies :
       LET session_id == Field(data, "session_id")
           message == Strip(Field(data, "message"))
           bad == session_id = "" \/ message = "" IN
       threads' = [threads EXCEPT ![t] =
         [pc |-> IF bad THEN "done" ELSE "test",
          endpoint |-> "/chat", data |-> data, i |-> 0, results |-> <<>>,
          response |-> IF bad
                         THEN Resp(ErrorBody("session_id and message are required", <<>>), 400)
                       ELSE NoResponse,
          overlapped |-> ChatsRunning # {},
          session_id |-> session_id, message |-> message,
          unseen |-> session_id \notin DOMAIN CHAT_SESSIONS,
          assistant_text |-> ""]]
  /\ UNCHANGED <<model, pc, request, response, log, CHAT_SESSIONS, OFFLINE_CONVERSATIONS,
                 mongo, client>>

\* if session_id not in CHAT_SESSIONS:
ChatTest(t) ==
  /\ threads[t].pc = "test"
  /\ threads' = [threads EXCEPT ![t].pc =
                   IF threads[t].session_id \notin DOMAIN CHAT_SESSIONS THEN "create"
                   ELSE "append_user"]
  /\ UNCHANGED <<model, pc, request, response, log, CHAT_SESSIONS, OFFLINE_CONVERSATIONS,
                 mongo, client>>

\* CHAT_SESSIONS[session_id] = [system prompt]
ChatCreate(t) ==
  /\ threads[t].pc = "create"
  /\ CHAT_SESSIONS' = Put(CHAT_SESSIONS, threads[t].session_id,
                          <<Turn("system", SYSTEM_PROMPT)>>)
  /\ threads' = [threads EXCEPT ![t].pc = "append_user"]
  /\ UNCHANGED <<model, pc, request, response, log, OFFLINE_CONVERSATIONS, mongo, client>>

\* CHAT_SESSIONS[session_id].append(user turn)
ChatAppendUser(t) ==
  /\ threads[t].pc = "append_user"
  /\ CHAT_SESSIONS' = Put(CHAT_SESSIONS, threads[t].session_id,
                          Append(CHAT_SESSIONS[threads[t].session_id],
                                 Turn("user", threads[t].message)))
  /\ threads' = [threads EXCEPT ![t].pc = "gemini"]
  /\ UNCHANGED <<model, pc, request, response, log, OFFLINE_CONVERSATIONS, mongo, client>>

\* get_gemini_model() and generate_content: assistant_text is set
ChatGemini(t) ==
  /\ threads[t].pc = "gemini"
  /\ \E gemini \in GeminiOutcomes :
       threads' = [threads EXCEPT
                     ![t].pc = "append_assistant",
                     ![t].assistant_text =
                       CASE gemini = "unconfigured" -> GeminiUnavailable
                         [] gemini = "raises" -> GeminiFailed
                         [] OTHER -> GeminiText]
  /\ UNCHANGED <<model, pc, request, response, log, CHAT_SESSIONS, OFFLINE_CONVERSATIONS,
                 mongo, client>>

\* CHAT_SESSIONS[session_id].append(assistant turn)
ChatAppendAssistant(t) ==
  /\ threads[t].pc = "append_assistant"
  /\ CHAT_SESSIONS' = Put(CHAT_SESSIONS, threads[t].session_id,
                          Append(CHAT_SESSIONS[threads[t].session_id],
                                 Turn("assistant", threads[t].assistant_text)))
  /\ threads' = [threads EXCEPT ![t].pc = "return"]
  /\ UNCHANGED <<model, pc, request, response, log, OFFLINE_CONVERSATIONS, mongo, client>>

\* return jsonify(reply, history[-20:], success)
ChatReturn(t) ==
  /\ threads[t].pc = "return"
  /\ threads' = [threads EXCEPT
                   ![t].pc = "done",
                   ![t].response =
                     Resp([reply |-> threads[t].assistant_text,
                           history |-> Last(CHAT_SESSIONS[threads[t].session_id], 20),
                           status |-> "success"], 200)]
  /\ UNCHANGED <<model, pc, request, response, log, CHAT_SESSIONS, OFFLINE_CONVERSATIONS,
                 mongo, client>>

InitChatConcurrent == Started({None})

NextChatConcurrent ==
  \E t \in Threads :
    \/ ChatBegin(t)
    \/ ChatTest(t)
    \/ ChatCreate(t)
    \/ ChatAppendUser(t)
    \/ ChatGemini(t)
    \/ ChatAppendAssistant(t)
    \/ ChatReturn(t)
    \/ Reply(t)

SpecChatConcurrent == InitChatConcurrent /\ [][NextChatConcurrent]_vars

(***************************************************************************)
(* The batch page of the Streamlit client (src/project.py): a CSV file is  *)
(* uploaded, its rows are converted with convert_student_to_api_format and *)
(* sent to /predict_batch.  A row is the set of the file's columns and     *)
(* whether its values are numbers.                                         *)
(***************************************************************************)
\* faulty variant of the table: 'Nacionality' goes to a name the API does not know
api_mappingMisspelt ==
  << <<"Marital status", "marital_status">>,
     <<"Application mode", "application_mode">>,
     <<"Course", "course">>,
     <<"Daytime/evening attendance", "daytime_evening_attendance">>,
     <<"Previous qualification", "previous_qualification">>,
     <<"Nacionality", "nacionality">>,
     <<"Mother's qualification", "mother_qualification">>,
     <<"Father's qualification", "father_qualification">>,
     <<"Mother's occupation", "mother_occupation">>,
     <<"Father's occupation", "father_occupation">>,
     <<"Displaced", "displaced">>,
     <<"Educational special needs", "educational_special_needs">>,
     <<"Debtor", "debtor">>,
     <<"Tuition fees up to date", "tuition_fees_up_to_date">>,
     <<"Gender", "gender">>,
     <<"Scholarship holder", "scholarship_holder">>,
     <<"Age at enrollment", "age_at_enrollment">>,
     <<"International", "international">>,
     <<"Curricular units 1st sem (credited)", "curricular_units_1st_sem_credited">>,
     <<"Curricular units 1st sem (enrolled)", "curricular_units_1st_sem_enrolled">>,
     <<"Curricular units 1st sem (evaluations)", "curricular_units_1st_sem_evaluations">>,
     <<"Curricular units 1st sem (approved)", "curricular_units_1st_sem_approved">>,
     <<"Curricular units 1st sem (grade)", "curricular_units_1st_sem_grade">>,
     <<"Curricular units 2nd sem (credited)", "curricular_units_2nd_sem_credited">>,
     <<"Curricular units 2nd sem (enrolled)", "curricular_units_2nd_sem_enrolled">>,
     <<"Curricular units 2nd sem (evaluations)", "curricular_units_2nd_sem_evaluations">>,
     <<"Curricular units 2nd sem (approved)", "curricular_units_2nd_sem_approved">>,
     <<"Curricular units 2nd sem (grade)", "curricular_units_2nd_sem_grade">>,
     <<"Unemployment rate", "unemployment_rate">>,
     <<"Inflation rate", "inflation_rate">>,
     <<"GDP", "gdp">> >>

\* api_mapping of convert_student_to_api_format: column name, API name
api_mapping ==
  << <<"Marital status", "marital_status">>,
     <<"Application mode", "application_mode">>,
     <<"Course", "course">>,
     <<"Daytime/evening attendance", "daytime_evening_attendance">>,
     <<"Previous qualification", "previous_qualification">>,
     <<"Nacionality", "nationality">>,
     <<"Mother's qualification", "mother_qualification">>,
     <<"Father's qualification", "father_qualification">>,
     <<"Mother's occupation", "mother_occupation">>,
     <<"Father's occupation", "father_occupation">>,
     <<"Displaced", "displaced">>,
     <<"Educational special needs", "educational_special_needs">>,
     <<"Debtor", "debtor">>,
     <<"Tuition fees up to date", "tuition_fees_up_to_date">>,
     <<"Gender", "gender">>,
     <<"Scholarship holder", "scholarship_holder">>,
     <<"Age at enrollment", "age_at_enrollment">>,
     <<"International", "international">>,
     <<"Curricular units 1st sem (credited)", "curricular_units_1st_sem_credited">>,
     <<"Curricular units 1st sem (enrolled)", "curricular_units_1st_sem_enrolled">>,
     <<"Curricular units 1st sem (evaluations)", "curricular_units_1st_sem_evaluations">>,
     <<"Curricular units 1st sem (approved)", "curricular_units_1st_sem_approved">>,
     <<"Curricular units 1st sem (grade)", "curricular_units_1st_sem_grade">>,
     <<"Curricular units 2nd sem (credited)", "curricular_units_2nd_sem_credited">>,
     <<"Curricular units 2nd sem (enrolled)", "curricular_units_2nd_sem_enrolled">>,
     <<"Curricular units 2nd sem (evaluations)", "curricular_units_2nd_sem_evaluations">>,
     <<"Curricular units 2nd sem (approved)", "curricular_units_2nd_sem_approved">>,
     <<"Curricular units 2nd sem (grade)", "curricular_units_2nd_sem_grade">>,
     <<"Unemployment rate", "unemployment_rate">>,
     <<"Inflation rate", "inflation_rate">>,
     <<"GDP", "gdp">> >>

required_columns ==
  << "Marital status",
     "Application mode",
     "Course",
     "Daytime/evening attendance",
     "Previous qualification",
     "Nacionality",
     "Mother's qualification",
     "Father's qualification",
     "Mother's occupation",
     "Father's occupation",
     "Displaced",
     "Educational special needs",
     "Debtor",
     "Tuition fees up to date",
     "Gender",
     "Scholarship holder",
     "Age at enrollment",
     "International",
     "Curricular units 1st sem (credited)",
     "Curricular units 1st sem (enrolled)",
     "Curricular units 1st sem (evaluations)",
     "Curricular units 1st sem (approved)",
     "Curricular units 1st sem (grade)",
     "Curricular units 2nd sem (credited)",
     "Curricular units 2nd sem (enrolled)",
     "Curricular units 2nd sem (evaluations)",
     "Curricular units 2nd sem (approved)",
     "Curricular units 2nd sem (grade)",
     "Unemployment rate",
     "Inflation rate",
     "GDP" >>

\* for col_name, api_name in api_mapping.items(): if col_name in student_row
convert_student_to_api_format(student_row) ==
  Obj({api_mapping[n][2] : n \in {k \in 1..Len(api_mapping) :
                                    api_mapping[k][1] \in student_row.columns}},
      student_row.typed)

\* [col for col in required_columns if col not in df.columns]
MissingColumns(columns) == SelectSeq(required_columns, LAMBDA col : col \notin columns)

\* the column sets of the uploaded files: all required columns or some lacking,
\* with or without the columns the training file has beside them
CsvColumnSets ==
  {({required_columns[n] : n \in 1..Len(required_columns)} \ lacking) \cup further :
     lacking \in SUBSET {"Course", "Nacionality", "GDP"},
     further \in {{}, {"Application order", "Target"}}}

\* the rows of a file: for each, whether its values are numbers
CsvRows == UNION {[1..n -> BOOLEAN] : n \in 0..MaxBatch}

\* a CSV file is uploaded: the columns are checked, the rows converted
UploadCsv ==
  /\ client.stage = "idle"
  /\ \E columns \in CsvColumnSets, rows \in CsvRows :
       client' =
         IF MissingColumns(columns) # <<>>
           THEN [stage |-> "rejected", columns |-> columns, rows |-> rows,
                 students_list |-> <<>>]
         ELSE [stage |-> "uploaded", columns |-> columns, rows |-> rows,
               students_list |->
                 [n \in 1..Len(rows) |->
                    convert_student_to_api_format([columns |-> columns, typed |-> rows[n]])]]
  /\ UNCHANGED <<model, pc, request, response, log, CHAT_SESSIONS, OFFLINE_CONVERSATIONS,
                 threads, mongo>>

\* "Predict All Students": predict_batch_students posts the list to the API
PredictAllStudents ==
  /\ client.stage = "uploaded"
  /\ pc = "idle"
  /\ LET data == WithStudents(Obj({"students"}, TRUE),
                              [is_list |-> TRUE, items |-> client.students_list])
         r == predict_batch(model, data) IN
     /\ request' = [endpoint |-> "/predict_batch", data |-> data]
     /\ response' = r.response
     /\ log' = r.log
  /\ pc' = "responded"
  /\ client' = [client EXCEPT !.stage = "predicted"]
  /\ UNCHANGED <<model, CHAT_SESSIONS, OFFLINE_CONVERSATIONS, threads, mongo>>

\* the page is left, or another file is chosen
ClearUpload ==
  /\ client.stage \in {"rejected", "uploaded", "predicted"}
  /\ pc = "idle"
  /\ client' = IdleClient
  /\ UNCHANGED <<model, pc, request, response, log, CHAT_SESSIONS, OFFLINE_CONVERSATIONS,
                 threads, mongo>>

InitClient == Started(ServiceModels)

NextClient == UploadCsv \/ PredictAllStudents \/ Respond \/ ClearUpload

SpecClient == InitClient /\ [][NextClient]_vars

(***************************************************************************)
(* get_mongodb_connection() of the Streamlit client (src/project.py): the  *)
(* candidate URIs are tried in order, each up to AttemptsPerUri times.     *)
(* tried lists the attempts made, each with its URI and whether the ping   *)
(* succeeded; client is the URI of the returned client, "" for None.       *)
(***************************************************************************)
AttemptsPerUri == 5

LoopbackUri == "mongodb://127.0.0.1:27017/"

LocalhostUri == "mongodb://localhost:27017/"

\* what the secrets or the environment can set MONGODB_URI to
ConfiguredUris == {DefaultUri, LocalhostUri, "mongodb://db.example.org:27017/"}

\* faulty variant: both fallbacks are appended without the membership test
CandidateUrisAppendsAll(uri) ==
  (IF uri # "" THEN <<uri>> ELSE <<>>) \o <<LoopbackUri, LocalhostUri>>

\* candidate_uris as built before the loop
CandidateUris(uri) ==
  LET configured == IF uri # "" THEN <<uri>> ELSE <<>>
      loopback == IF LoopbackUri \notin {configured[n] : n \in 1..Len(configured)}
                    THEN Append(configured, LoopbackUri) ELSE configured
  IN IF LocalhostUri \notin {loopback[n] : n \in 1..Len(loopback)}
       THEN Append(loopback, LocalhostUri) ELSE loopback

\* MongoClient(uri, ...) raises, the ping raises, or the ping is answered
AttemptOutcomes == {"client_raises", "ping_raises", "pong"}

\* get_mongodb_connection() is entered (no cached value)
GetMongodbConnection ==
  /\ mongo.pc = "idle"
  /\ mongo' = [mongo EXCEPT !.pc = "running",
                            !.candidate_uris = CandidateUris(mongo.MONGODB_URI),
                            !.u = 1, !.attempt = 1, !.tried = <<>>,
                            !.last_error = "", !.client = ""]
  /\ UNCHANGED <<model, pc, request, response, log, CHAT_SESSIONS, OFFLINE_CONVERSATIONS,
                 threads, client>>

\* one pass of the inner loop body; after the last failed attempt on the last
\* candidate the function reports the error and returns None
MongoAttempt ==
  /\ mongo.pc = "running"
  /\ \E outcome \in AttemptOutcomes :
       LET uri == mongo.candidate_uris[mongo.u]
           tried == Append(mongo.tried, [uri |-> uri, ok |-> outcome = "pong"])
       IN mongo' =
            IF outcome = "pong"
              THEN [mongo EXCEPT !.pc = "returned", !.tried = tried, !.client = uri]
            ELSE IF mongo.attempt < AttemptsPerUri
              THEN [mongo EXCEPT !.tried = tried, !.last_error = outcome,
                                 !.attempt = mongo.attempt + 1]
            ELSE IF mongo.u < Len(mongo.candidate_uris)
              THEN [mongo EXCEPT !.tried = tried, !.last_error = outcome,
                                 !.u = mongo.u + 1, !.attempt = 1]
            ELSE [mongo EXCEPT !.pc = "returned", !.tried = tried,
                               !.last_error = outcome, !.client = ""]
  /\ UNCHANGED <<model, pc, request, response, log, CHAT_SESSIONS, OFFLINE_CONVERSATIONS,
                 threads, client>>

\* the cached value expires (ttl=10): the next call runs the function again
MongoExpire ==
  /\ mongo.pc = "returned"
  /\ mongo' = IdleMongo(mongo.MONGODB_URI)
  /\ UNCHANGED <<model, pc, request, response, log, CHAT_SESSIONS, OFFLINE_CONVERSATIONS,
                 threads, client>>

\* the Streamlit process: no classifier, MONGODB_URI fixed at import
InitMongo ==
  /\ model = None
  /\ pc = "idle"
  /\ request = NoRequest
  /\ response = NoResponse
  /\ log = <<>>
  /\ CHAT_SESSIONS = NoSessions
  /\ OFFLINE_CONVERSATIONS = NoSessions
  /\ threads = [t \in Threads |-> IdleThread]
  /\ mongo \in {IdleMongo(uri) : uri \in ConfiguredUris}
  /\ client = IdleClient

NextMongo == GetMongodbConnection \/ MongoAttempt \/ MongoExpire

\* every attempt ends (the timeouts are 3000 ms, the sleep 0.6 s), so the loop
\* keeps going
SpecMongo == InitMongo /\ [][NextMongo]_vars /\ WF_vars(MongoAttempt)

(***************************************************************************)
(* Properties of the prediction service.                                   *)
(***************************************************************************)
Responded(endpoint) == pc = "responded" /\ request.endpoint = endpoint

\* the batch request being answered carries a list under 'students'
CarriesList ==
  /\ Responded("/predict_batch")
  /\ request.data.kind = "object"
  /\ "students" \in request.data.keys
  /\ request.data.students.is_list

\* that list, and what became of it
Students == request.data.students.items

IsBatchOutcome(r) == r.code = 200 /\ "results" \in DOMAIN r.body

Positions(results, status) == {n \in 1..Len(results) : results[n].status = status}

\* C1: a batch of N records answered with a loaded model has exactly N result
\* entries, total_processed = N, successful and failed count the success- and
\* error-tagged entries and add up to N; an empty list gives no entry and 0, 0.
C1_BatchComplete ==
  (CarriesList /\ model.loaded) =>
    /\ IsBatchOutcome(response)
    /\ LET b == response.body
           N == Len(Students)
       IN /\ Len(b.results) = N
          /\ b.total_processed = N
          /\ b.successful = Cardinality(Positions(b.results, "success"))
          /\ b.failed = Cardinality(Positions(b.results, "error"))
          /\ b.successful + b.failed = N
          /\ (N = 0 => b.results = <<>> /\ b.successful = 0 /\ b.failed = 0)

\* a two-record batch whose first record failed and whose second succeeded
C1_Witness ==
  /\ CarriesList /\ model.loaded
  /\ IsBatchOutcome(response)
  /\ Len(Students) = 2
  /\ Len(response.body.results) = 2
  /\ response.body.results[1].status = "error"
  /\ response.body.results[2].status = "success"
  /\ response.body.successful = 1
  /\ response.body.failed = 1

\* C2: the entry at position i of results carries index i (counted from 0),
\* whichever records before or after it failed.
C2_IndexFidelity ==
  (CarriesList /\ model.loaded) =>
    /\ IsBatchOutcome(response)
    /\ \A n \in 1..Len(Students) :
         /\ n <= Len(response.body.results)
         /\ response.body.results[n].index = n - 1

\* a success at index 1 after a non-mapping record failed at index 0
C2_Witness ==
  /\ CarriesList /\ model.loaded
  /\ IsBatchOutcome(response)
  /\ Len(Students) = 2
  /\ Students[1] = JNumber
  /\ Len(response.body.results) = 2
  /\ response.body.results[1].status = "error"
  /\ response.body.results[1].index = 0
  /\ response.body.results[2].status = "success"
  /\ response.body.results[2].index = 1

\* the results of the batch that differs from the answered one at position j only
ResultsWith(j, r) ==
  predict_batch(model,
                WithStudents(Obj({"students"}, TRUE),
                             [is_list |-> TRUE,
                              items |-> [Students EXCEPT ![j] = r]])).response.body.results

\* C3: the entry at index i is decided by record i alone: exchanging any other
\* record j for any record leaves the entry at i as it is, and after a failure
\* at j every later index is still validated and has its entry.
C3_Isolation ==
  (CarriesList /\ model.loaded) =>
    /\ IsBatchOutcome(response)
    /\ \A i \in 1..Len(Students) :
         /\ i <= Len(response.body.results)
         /\ \A j \in 1..Len(Students) \ {i} : \A r \in StudentRecords :
              /\ i <= Len(ResultsWith(j, r))
              /\ ResultsWith(j, r)[i] = response.body.results[i]
    /\ \A j \in 1..Len(response.body.results) :
         response.body.results[j].status = "error" =>
           \A k \in (j + 1)..Len(Students) :
             /\ k <= Len(response.body.results)
             /\ \E e \in 1..Len(log) : log[e] = Event("validate", k - 1)

\* a record missing a key failed at index 0 and the complete record after it
\* succeeded
C3_Witness ==
  /\ CarriesList /\ model.loaded
  /\ IsBatchOutcome(response)
  /\ Len(Students) = 2
  /\ Students[1] = Obj(RequiredKeys \ {"course"}, TRUE)
  /\ Students[2] = Obj(RequiredKeys, TRUE)
  /\ Len(response.body.results) = 2
  /\ response.body.results[1].status = "error"
  /\ response.body.results[2].status = "success"

\* C4: with no model loaded every /predict and /predict_batch request, whatever
\* its body, gets the model-unavailable error, before the body is read or
\* validated and without a classifier call.
C4_ModelUnavailable ==
  (pc = "responded" /\ ~model.loaded) =>
    /\ response.code = 500
    /\ response.body = ErrorBody("Model not loaded", <<>>)
    /\ log = <<>>

\* a well-formed batch refused because no model is loaded
C4_Witness ==
  /\ CarriesList /\ ~model.loaded
  /\ Len(Students) = 1
  /\ Students[1] = Obj(RequiredKeys, TRUE)
  /\ response = ModelNotLoaded
  /\ log = <<>>

\* the required keys a JSON object lacks
Lacking(d) == RequiredKeys \ d.keys

Range(seq) == {seq[n] : n \in 1..Len(seq)}

\* C5 (as claimed): a /predict record lacking any non-empty set of the 31
\* required keys, up to all 31, gets a validation error naming every missing key.
C5_SingleNamesMissing ==
  (/\ Responded("/predict") /\ model.loaded
   /\ request.data.kind = "object"
   /\ Lacking(request.data) # {}) =>
    /\ response.code = 400
    /\ response.body.status = "error"
    /\ Range(response.body.error.args) = Lacking(request.data)

\* C6: in a batch, a record lacking required keys gets at its own index an
\* error entry that names every key it lacks and carries no success field.
C6_BatchNamesMissing ==
  (CarriesList /\ model.loaded) =>
    /\ IsBatchOutcome(response)
    /\ \A n \in 1..Len(Students) :
         (Students[n].kind = "object" /\ Lacking(Students[n]) # {}) =>
           /\ n <= Len(response.body.results)
           /\ LET e == response.body.results[n] IN
              /\ DOMAIN e = {"index", "error", "status"}
              /\ e.index = n - 1
              /\ e.status = "error"
              /\ e.error.text = "Missing required features"
              /\ Range(e.error.args) = Lacking(Students[n])

\* a record missing only 'course', at index 1, whose entry names 'course';
\* the record before it lacks two keys
C6_Witness ==
  /\ CarriesList /\ model.loaded
  /\ IsBatchOutcome(response)
  /\ Len(Students) = 2
  /\ Students[1] = Obj(RequiredKeys \ {"course", "gdp"}, TRUE)
  /\ Students[2] = Obj(RequiredKeys \ {"course"}, TRUE)
  /\ Len(response.body.results) = 2
  /\ response.body.results[1].error.args = <<"course", "gdp">>
  /\ response.body.results[2].index = 1
  /\ response.body.results[2].error.args = <<"course">>

\* the Dropout probability of a result, in hundredths; 0 without that class
DropoutOf(fields) ==
  IF "Dropout" \in DOMAIN fields.probabilities THEN fields.probabilities["Dropout"] ELSE 0

\* the tier table of the claim, for label l, Dropout probability p and tier t
TierAsClaimed(l, p, t) ==
  /\ t \in {"Low", "Medium", "High"}
  /\ t = "High" <=> (l = "Dropout" /\ p > 70)
  /\ t = "Medium" <=> \/ (l = "Dropout" /\ p > 40 /\ p <= 70)
                      \/ (l # "Dropout" /\ p > 30)
  /\ (l = "Dropout" /\ p = 70) => t = "Medium"
  /\ (l = "Dropout" /\ p = 40) => t = "Low"
  /\ (l # "Dropout" /\ p = 30) => t = "Low"

\* the successful results of the request being answered, single or batch
Successes ==
  IF Responded("/predict") /\ response.body.status = "success" THEN {response.body}
  ELSE IF Responded("/predict_batch") /\ IsBatchOutcome(response)
    THEN {response.body.results[n] : n \in Positions(response.body.results, "success")}
  ELSE {}

\* C7: in the single and in the batch path the risk tier is the claimed
\* function of the predicted label and the Dropout probability, with strict
\* comparisons at 0.7, 0.4 and 0.3.
C7_RiskTier ==
  \A f \in Successes : TierAsClaimed(f.prediction, DropoutOf(f), f.risk_level)

\* a batch entry predicted Dropout with probability exactly 0.7: Medium
C7_Witness ==
  /\ Responded("/predict_batch")
  /\ \E f \in Successes :
       /\ f.prediction = "Dropout"
       /\ DropoutOf(f) = 70
       /\ f.risk_level = "Medium"

\* a parsed body without a 'students' key, or with one that is not a list
NoUsableList ==
  /\ Responded("/predict_batch")
  /\ request.data.kind # "malformed"
  /\ \/ ~(request.data.kind = "object" /\ "students" \in request.data.keys)
     \/ ~request.data.students.is_list

\* C8 (as claimed): such a body gets one whole-batch validation error, no
\* per-record results, and no record is validated or given to the classifier.
C8_RejectsNonList ==
  (NoUsableList /\ model.loaded) =>
    /\ response.code = 400
    /\ response.body.status = "error"
    /\ response.body.error.text \in
         {"No students data provided", "Students data must be a list"}
    /\ "results" \notin DOMAIN response.body
    /\ \A e \in 1..Len(log) : log[e].op = "get_json"

\* whether record d, handled alone by /predict, ends in an error
FailsAlone(d) == predict(model, d).response.body.status = "error"

\* C9: with a loaded model and a list under 'students', predict_batch always
\* returns a batch outcome; every record that fails has its error entry at its
\* own index, and a whole-batch error only answers a request without a list.
C9_BatchAlwaysAnswers ==
  (Responded("/predict_batch") /\ model.loaded) =>
    /\ CarriesList =>
         /\ IsBatchOutcome(response)
         /\ \A n \in 1..Len(Students) :
              /\ n <= Len(response.body.results)
              /\ FailsAlone(Students[n]) =>
                   /\ response.body.results[n].status = "error"
                   /\ response.body.results[n].index = n - 1
                   /\ "error" \in DOMAIN response.body.results[n]
    /\ response.body.status = "error" => ~CarriesList

\* a batch outcome whose two records both failed: a classifier exception and a
\* non-mapping record
C9_Witness ==
  /\ CarriesList /\ model.loaded
  /\ IsBatchOutcome(response)
  /\ Students = <<Obj(RequiredKeys, FALSE), JNull>>
  /\ response.body.failed = 2
  /\ response.body.results[1].error = [text |-> "Prediction failed", args |-> <<ConversionError>>]
  /\ response.body.results[2].error.text = "Prediction failed"

\* C10 (as claimed): for every record r, /predict on r and /predict_batch on
\* [r] agree: both succeed with the same prediction, probabilities, risk tier
\* and confidence, or both fail with the same error and description.
C10_SingleBatchAgree ==
  (CarriesList /\ model.loaded /\ Len(Students) = 1) =>
    /\ IsBatchOutcome(response)
    /\ Len(response.body.results) = 1
    /\ LET single == predict(model, Students[1]).response.body
           entry == response.body.results[1]
       IN IF single.status = "success"
            THEN /\ entry.status = "success"
                 /\ entry.prediction = single.prediction
                 /\ entry.probabilities = single.probabilities
                 /\ entry.risk_level = single.risk_level
                 /\ entry.confidence = single.confidence
            ELSE /\ entry.status = "error"
                 /\ entry.error = single.error

\* the records of the request being answered, each with its index and with
\* what the response holds for it: the body of /predict, or the batch entry
Handled ==
  IF Responded("/predict") /\ model.loaded
    THEN {[record |-> request.data, index |-> 0, result |-> response.body]}
  ELSE IF CarriesList /\ IsBatchOutcome(response)
    THEN {[record |-> Students[n], index |-> n - 1, result |-> response.body.results[n]] :
            n \in 1..Len(response.body.results)}
  ELSE {}

\* a record that passes the missing-feature validation
Validated(d) == d.kind = "object" /\ Lacking(d) = {}

\* the classifier returns a label and a probability vector for the record
ClassifierAnswers(d) ==
  d.typed /\ ~model.outcome.predict_raises /\ ~model.outcome.proba_raises

\* C11 (as claimed): when the probability vector and the class-label list
\* differ in length, shorter or longer, the prediction fails with an error
\* instead of returning a result.
C11_MismatchFails ==
  \A h \in Handled :
    (/\ Validated(h.record) /\ ClassifierAnswers(h.record)
     /\ Len(model.outcome.proba) # Len(model.classes)) =>
      /\ h.result.status = "error"
      /\ h.result.error.text = "Prediction failed"

MaxOf(S) == CHOOSE x \in S : \A y \in S : y <= x

\* C12 (as claimed): the confidence of a successful prediction is the largest
\* value of its class_probabilities mapping.
C12_ConfidenceIsMax ==
  \A f \in Successes :
    f.confidence = MaxOf({f.probabilities[c] : c \in DOMAIN f.probabilities})

SuccessFields == {"prediction", "probabilities", "risk_level", "confidence", "status"}

\* C13: a /predict response holds the success fields, or an error with a
\* failure status, never both; a batch outcome has exactly one entry per index,
\* success-tagged with all result fields and no error, or error-tagged with a
\* message and no result field.
C13_SuccessOrError ==
  /\ Responded("/predict") =>
       \/ /\ response.code = 200
          /\ response.body.status = "success"
          /\ DOMAIN response.body = SuccessFields
       \/ /\ response.code \in {400, 500}
          /\ response.body.status = "error"
          /\ DOMAIN response.body = {"error", "status"}
  /\ (CarriesList /\ model.loaded) =>
       /\ IsBatchOutcome(response)
       /\ \A i \in 0..(Len(Students) - 1) :
            Cardinality({n \in 1..Len(response.body.results) :
                           response.body.results[n].index = i}) = 1
       /\ \A n \in 1..Len(response.body.results) :
            LET e == response.body.results[n] IN
            \/ e.status = "success" /\ DOMAIN e = SuccessFields \cup {"index"}
            \/ e.status = "error" /\ DOMAIN e = {"index", "error", "status"}

\* a batch outcome holding a success entry and an error entry
C13_Witness ==
  /\ CarriesList /\ model.loaded
  /\ IsBatchOutcome(response)
  /\ Len(response.body.results) = 2
  /\ response.body.results[1].status = "success"
  /\ response.body.results[2].status = "error"
  /\ response.body.results[2].error.text = "Prediction failed"

Calls(op, i) == {e \in 1..Len(log) : log[e] = Event(op, i)}

\* C14: a record missing a required key is never given to the classifier,
\* neither to predict nor to predict_proba; and every classifier call for a
\* record comes after the validation of that record.
C14_ValidationFirst ==
  \A h \in Handled :
    /\ (h.record.kind = "object" /\ Lacking(h.record) # {}) =>
         /\ Calls("predict", h.index) = {}
         /\ Calls("predict_proba", h.index) = {}
    /\ \A e \in Calls("predict", h.index) \cup Calls("predict_proba", h.index) :
         \E v \in Calls("validate", h.index) : v < e

\* a batch whose first record lacks a key and was not predicted, and whose
\* second record was validated and then predicted
C14_Witness ==
  /\ CarriesList /\ model.loaded
  /\ Len(Students) = 2
  /\ Lacking(Students[1]) = {"course"}
  /\ Calls("predict", 0) = {} /\ Calls("predict_proba", 0) = {}
  /\ Calls("validate", 0) # {}
  /\ Calls("predict", 1) # {} /\ Calls("predict_proba", 1) # {}

\* str(e) of what the classifier raises for record d
UnderlyingMessage(d) == IF ~d.typed THEN ConversionError ELSE ClassifierError

\* C15: when predict or predict_proba raises for a validated record, the
\* outcome of that record is an error carrying the exception's message, in the
\* single response or at the record's batch index, and never a success.
C15_InferenceError ==
  \A h \in Handled :
    (Validated(h.record) /\ ~ClassifierAnswers(h.record)) =>
      /\ h.result.status = "error"
      /\ DOMAIN h.result \cap SuccessFields = {"status"}
      /\ h.result.error = [text |-> "Prediction failed",
                           args |-> <<UnderlyingMessage(h.record)>>]

\* predict_proba raised for the record of a /predict request
C15_Witness ==
  /\ Responded("/predict") /\ model.loaded
  /\ Validated(request.data) /\ request.data.typed
  /\ model.outcome.proba_raises
  /\ Calls("predict", 0) # {} /\ Calls("predict_proba", 0) # {}
  /\ response.code = 500
  /\ response.body.error.args = <<ClassifierError>>

\* C19: no retries: for every record of a request predict and predict_proba
\* are each called at most once, also when the classifier raised.
C19_NoRetry ==
  pc = "responded" =>
    \A i \in 0..MaxBatch :
      /\ Cardinality(Calls("predict", i)) <= 1
      /\ Cardinality(Calls("predict_proba", i)) <= 1

\* predict raised for the second record of a batch and was called once for it
C19_Witness ==
  /\ CarriesList /\ model.loaded
  /\ Len(Students) = 2
  /\ Validated(Students[2]) /\ ~Students[2].typed
  /\ Cardinality(Calls("predict", 1)) = 1
  /\ Calls("predict_proba", 1) = {}
  /\ response.body.results[2].status = "error"

Injective(f) == \A a, b \in DOMAIN f : f[a] = f[b] => a = b

\* C18: FEATURE_MAPPING pairs exactly 31 distinct API names with 31 distinct
\* column names, and the model input built from any validated record lists
\* the columns in the order of the training feature_columns, whatever keys the
\* record came with.
C18_FixedColumns ==
  /\ Len(FEATURE_MAPPING) = 31
  /\ Injective([n \in 1..Len(FEATURE_MAPPING) |-> FEATURE_MAPPING[n][1]])
  /\ Injective([n \in 1..Len(FEATURE_MAPPING) |-> FEATURE_MAPPING[n][2]])
  /\ \A h \in Handled :
       Validated(h.record) => ToModelInput(h.record).columns = feature_columns

\* a validated record with a key beyond the 31 was predicted
C18_Witness ==
  /\ Responded("/predict") /\ model.loaded
  /\ Validated(request.data)
  /\ "student_id" \in request.data.keys
  /\ Calls("predict", 0) # {}
  /\ response.body.status = "success"

PredictionAnswered == Responded("/predict") \/ Responded("/predict_batch")

\* C16: no request to any endpoint, /chat included, changes the global
\* model; /health reports model_loaded as the model is, and a prediction
\* request is answered "Model not loaded" exactly when the model is not loaded.
C16_ModelFixed ==
  [][/\ model' = model
     /\ (Responded("/health") => response.body.model_loaded = model.loaded)'
     /\ (PredictionAnswered => (response = ModelNotLoaded <=> ~model.loaded))']_vars

\* /health answers not loaded after a /chat turn whose Gemini model was None
C16_Witness ==
  /\ Responded("/health")
  /\ ~response.body.model_loaded
  /\ \E s \in DOMAIN CHAT_SESSIONS :
       CHAT_SESSIONS[s][Len(CHAT_SESSIONS[s])] = Turn("assistant", GeminiUnavailable)

\* C17: a prediction request, answered with a result or with an error,
\* leaves the model and both chat stores as they were.
C17_NoSideEffects ==
  [][(pc = "idle" /\ PredictionAnswered') =>
       /\ model' = model
       /\ CHAT_SESSIONS' = CHAT_SESSIONS
       /\ OFFLINE_CONVERSATIONS' = OFFLINE_CONVERSATIONS]_vars

\* a batch answered with a success and an error entry while both stores hold
\* a session
C17_Witness ==
  /\ CarriesList /\ IsBatchOutcome(response)
  /\ Positions(response.body.results, "success") # {}
  /\ Positions(response.body.results, "error") # {}
  /\ DOMAIN CHAT_SESSIONS # {}
  /\ DOMAIN OFFLINE_CONVERSATIONS # {}

\* C20: under every interleaving of two prediction requests, a finished
\* request holds the response it gets when run alone, and a batch outcome has
\* one entry per own record, in order, and no other.
C20_NoInterference ==
  \A t \in Threads :
    LET me == threads[t] IN
    me.pc = "done" =>
      /\ me.response = Alone(model, me.endpoint, me.data)
      /\ ReachesLoop(model, me.endpoint, me.data) =>
           LET students == me.data.students.items
               results == me.response.body.results IN
           /\ Len(results) = Len(students)
           /\ \A n \in 1..Len(results) :
                results[n] = ProcessStudent(model, students[n], n - 1).entry

\* a batch of two records finished while the other thread was in the middle of
\* a batch of other records
C20_Witness ==
  \E t \in Threads, u \in Threads :
    /\ t # u
    /\ threads[t].pc = "done" /\ threads[t].overlapped
    /\ ReachesLoop(model, threads[t].endpoint, threads[t].data)
    /\ Len(threads[t].response.body.results) = 2
    /\ threads[u].pc = "running"
    /\ ReachesLoop(model, threads[u].endpoint, threads[u].data)
    /\ threads[u].i = 1
    /\ threads[u].data # threads[t].data

RECURSIVE SumOver(_, _)
SumOver(f, keys) ==
  IF keys = {} THEN 0
  ELSE LET k == CHOOSE x \in keys : TRUE IN f[k] + SumOver(f, keys \ {k})

\* C21 (as claimed): in every successful prediction the class probabilities
\* add up to 1 (100 hundredths) and each lies between 0 and 1.
C21_ProbabilitiesSumToOne ==
  \A f \in Successes :
    /\ SumOver(f.probabilities, DOMAIN f.probabilities) = 100
    /\ \A c \in DOMAIN f.probabilities : f.probabilities[c] \in 0..100

\* C23: High is given only to a result predicted 'Dropout' with a Dropout
\* probability above 0.7; any other label never gets High, whatever the Dropout
\* probability; and every result has one of the tiers Low, Medium, High.
C23_HighOnlyForDropout ==
  \A f \in Successes :
    /\ f.risk_level \in {"Low", "Medium", "High"}
    /\ f.risk_level = "High" => (f.prediction = "Dropout" /\ DropoutOf(f) > 70)
    /\ f.prediction # "Dropout" => f.risk_level # "High"

\* a result predicted Graduate with Dropout probability 1.0 is Medium
C23_Witness ==
  \E f \in Successes :
    /\ f.prediction = "Graduate"
    /\ DropoutOf(f) = 100
    /\ f.risk_level = "Medium"

\* the record without the keys that are no feature
WithoutExtras(d) == Obj(d.keys \cap RequiredKeys, d.typed)

\* C24: a record holding the 31 required keys and further keys passes the
\* validation, and its outcome is the outcome of the same record without the
\* further keys, in the single response and at its batch index.
C24_ExtraKeysIgnored ==
  \A h \in Handled :
    (Validated(h.record) /\ h.record.keys # RequiredKeys) =>
      /\ ~(h.result.status = "error" /\ h.result.error.text = "Missing required features")
      /\ h.result = IF Responded("/predict")
                      THEN predict(model, WithoutExtras(h.record)).response.body
                    ELSE ProcessStudent(model, WithoutExtras(h.record), h.index).entry

\* a batch whose second record carries student_id beside the 31 keys and is
\* predicted
C24_Witness ==
  /\ CarriesList /\ model.loaded
  /\ Len(Students) = 2
  /\ Validated(Students[2]) /\ "student_id" \in Students[2].keys
  /\ response.body.results[2].status = "success"

\* a history: the system prompt, then user and assistant turns in alternation,
\* the last one an assistant turn
WellFormed(history) ==
  /\ Len(history) >= 1
  /\ Len(history) % 2 = 1
  /\ history[1] = Turn("system", SYSTEM_PROMPT)
  /\ \A n \in 2..Len(history) :
       history[n].role = IF n % 2 = 0 THEN "user" ELSE "assistant"

\* store `after` is store `before` with one session longer by the user turn
\* and the reply, a new session starting from the system prompt
GrowsByTurn(before, after, session_id, message, reply) ==
  LET old == IF session_id \in DOMAIN before THEN before[session_id]
             ELSE <<Turn("system", SYSTEM_PROMPT)>> IN
  /\ DOMAIN after = DOMAIN before \cup {session_id}
  /\ \A s \in DOMAIN before \ {session_id} : after[s] = before[s]
  /\ after[session_id] = old \o <<Turn("user", message), Turn("assistant", reply)>>

\* a chat endpoint has just answered with success
ChatSucceeds(endpoint) ==
  pc = "idle" /\ (Responded(endpoint) /\ response.code = 200)'

\* C26: every stored history is the system prompt followed by alternating
\* user and assistant turns ending with an assistant turn, and a successful
\* /chat or /chat_offline call lengthens exactly one history by the user
\* message and then the reply, leaving all others as they were.
C26_HistoryShape ==
  [][/\ \A s \in DOMAIN CHAT_SESSIONS' : WellFormed(CHAT_SESSIONS'[s])
     /\ \A s \in DOMAIN OFFLINE_CONVERSATIONS' : WellFormed(OFFLINE_CONVERSATIONS'[s])
     /\ ChatSucceeds("/chat") =>
          /\ GrowsByTurn(CHAT_SESSIONS, CHAT_SESSIONS', request'.data.session_id,
                         Strip(request'.data.message), response'.body.reply)
          /\ OFFLINE_CONVERSATIONS' = OFFLINE_CONVERSATIONS
     /\ ChatSucceeds("/chat_offline") =>
          /\ GrowsByTurn(OFFLINE_CONVERSATIONS, OFFLINE_CONVERSATIONS',
                         response'.body.session_id,
                         Strip(request'.data.message), response'.body.reply)
          /\ CHAT_SESSIONS' = CHAT_SESSIONS]_vars

\* a /chat call whose generate_content raised has added a second turn to a
\* session
C26_Witness ==
  /\ Responded("/chat") /\ response.code = 200
  /\ response.body.reply = GeminiFailed
  /\ Len(CHAT_SESSIONS[request.data.session_id]) = 5

\* the request now answered is one the claim calls rejected
Rejected ==
  /\ pc = "responded"
  /\ request.data.kind \in {"object", "null"}
  /\ \/ /\ request.endpoint = "/chat"
        /\ \/ Field(request.data, "session_id") = ""
           \/ Field(request.data, "message") \in {"", "   "}
     \/ /\ request.endpoint = "/chat_offline"
        /\ Field(request.data, "message") \in {"", "   "}
     \/ /\ request.endpoint = "/reset_offline_session"
        /\ Field(request.data, "session_id") = ""

\* C27: a /chat request without session_id or with an empty or blank
\* message, a /chat_offline request with an empty or blank message, and a
\* /reset_offline_session request without session_id are answered with an
\* error and leave both stores as they were.
C27_RejectedChangesNothing ==
  [][(pc = "idle" /\ Rejected') =>
       /\ response'.code = 400
       /\ "error" \in DOMAIN response'.body
       /\ CHAT_SESSIONS' = CHAT_SESSIONS
       /\ OFFLINE_CONVERSATIONS' = OFFLINE_CONVERSATIONS]_vars

\* a blank message for a session not yet known is refused while another
\* session exists
C27_Witness ==
  /\ Rejected
  /\ request.endpoint = "/chat_offline"
  /\ Field(request.data, "message") = "   "
  /\ Field(request.data, "session_id") = "s1"
  /\ DOMAIN OFFLINE_CONVERSATIONS = Uuids
  /\ response.code = 400

\* C28: a reset of session s answers with success, removes s and leaves every
\* other session as it was (so resetting an unknown session changes nothing);
\* a /chat_offline call for a session that is absent returns the history
\* [system prompt, the user message, its reply].
C28_Reset ==
  [][/\ (/\ pc = "idle"
         /\ Responded("/reset_offline_session")'
         /\ Field(request'.data, "session_id") # "") =>
          LET s == request'.data.session_id IN
          /\ response'.code = 200
          /\ DOMAIN OFFLINE_CONVERSATIONS' = DOMAIN OFFLINE_CONVERSATIONS \ {s}
          /\ \A o \in DOMAIN OFFLINE_CONVERSATIONS' :
               OFFLINE_CONVERSATIONS'[o] = OFFLINE_CONVERSATIONS[o]
          /\ s \notin DOMAIN OFFLINE_CONVERSATIONS =>
               OFFLINE_CONVERSATIONS' = OFFLINE_CONVERSATIONS
          /\ CHAT_SESSIONS' = CHAT_SESSIONS
     /\ (/\ ChatSucceeds("/chat_offline")
         /\ Field(request'.data, "session_id") # ""
         /\ request'.data.session_id \notin DOMAIN OFFLINE_CONVERSATIONS) =>
          response'.body.history =
            << Turn("system", SYSTEM_PROMPT),
               Turn("user", Strip(request'.data.message)),
               Turn("assistant", response'.body.reply) >>]_vars

\* session s1 was reset and the session opened under a uuid is still there
C28_Witness ==
  /\ Responded("/reset_offline_session")
  /\ response.code = 200
  /\ request.data.session_id = "s1"
  /\ "s1" \notin DOMAIN OFFLINE_CONVERSATIONS
  /\ \E u \in Uuids : u \in DOMAIN OFFLINE_CONVERSATIONS

SelfHarmKeywords == {"suicide", "hurt myself", "kill myself", "die by"}

CrisisReply == "I'm really sorry you're feeling this way."

\* C30 (as claimed): a message holding one of the self-harm keywords is
\* answered with the crisis-resources reply, whatever other keywords it holds.
C30_CrisisReply ==
  (/\ Responded("/chat_offline") /\ response.code = 200
   /\ Mentions(request.data.message) \cap SelfHarmKeywords # {}) =>
    response.body.reply = CrisisReply

\* the attempts made so far all failed
AllFailed(tried) == \A k \in 1..Len(tried) : ~tried[k].ok

\* what holds of a call of get_mongodb_connection at every moment
MongoSafe ==
  mongo.pc # "idle" =>
    LET c == mongo.candidate_uris
        tried == mongo.tried IN
    /\ c[1] = mongo.MONGODB_URI
    /\ SelectSeq(c, LAMBDA x : x # mongo.MONGODB_URI)
         = SelectSeq(<<LoopbackUri, LocalhostUri>>, LAMBDA x : x # mongo.MONGODB_URI)
    /\ \A a, b \in 1..Len(c) : c[a] = c[b] => a = b
    /\ Len(tried) <= 15
    /\ \A k \in 1..Len(tried) : tried[k].uri = c[(k - 1) \div AttemptsPerUri + 1]
    /\ AllFailed(SubSeq(tried, 1, Len(tried) - 1))
    /\ mongo.pc = "running" => (AllFailed(tried) /\ Len(tried) < AttemptsPerUri * Len(c))
    /\ (mongo.pc = "returned" /\ mongo.client # "") =>
         /\ tried[Len(tried)] = [uri |-> mongo.client, ok |-> TRUE]
    /\ (mongo.pc = "returned" /\ mongo.client = "") =>
         (AllFailed(tried) /\ Len(tried) = AttemptsPerUri * Len(c))

\* C22: the configured URI is tried first, then the 127.0.0.1 and localhost
\* fallbacks, no URI twice, each at most 5 times in a row; the first answered
\* ping ends the call with that client; None is returned only after every
\* attempt on every candidate failed; and every call returns, within 15
\* attempts.
C22_MongoConnection ==
  /\ []MongoSafe
  /\ (mongo.pc = "running") ~> (mongo.pc = "returned")

\* the call returned None after 15 failed attempts on three candidates
C22_Witness ==
  /\ mongo.pc = "returned"
  /\ mongo.client = ""
  /\ Len(mongo.candidate_uris) = 3
  /\ Len(mongo.tried) = 15

\* C25: api_mapping pairs each of the 31 classifier columns with the API name
\* that FEATURE_MAPPING maps back to that column, and a CSV row holding all
\* required columns converts to a record with no required feature missing: the
\* batch sent by the client has no validation-error entry.
C25_ConvertIsInverse ==
  /\ Len(api_mapping) = 31
  /\ \A n \in 1..Len(api_mapping) :
       \E k \in 1..Len(FEATURE_MAPPING) :
         FEATURE_MAPPING[k] = <<api_mapping[n][2], api_mapping[n][1]>>
  /\ \A k \in 1..Len(FEATURE_MAPPING) :
       \E n \in 1..Len(api_mapping) : api_mapping[n][1] = FEATURE_MAPPING[k][2]
  /\ client.stage \in {"uploaded", "predicted"} =>
       \A n \in 1..Len(client.students_list) :
         /\ MissingFeatures(client.students_list[n]) = <<>>
         /\ client.students_list[n].keys = RequiredKeys
  /\ (client.stage = "predicted" /\ Responded("/predict_batch") /\ model.loaded) =>
       \A n \in 1..Len(response.body.results) :
         LET e == response.body.results[n] IN
         e.status = "error" => e.error.text # "Missing required features"

\* a file with all required columns and two further ones, with two rows, was
\* converted, sent and predicted
C25_Witness ==
  /\ client.stage = "predicted"
  /\ "Target" \in client.columns
  /\ Responded("/predict_batch") /\ model.loaded
  /\ Len(response.body.results) = 2
  /\ response.body.results[1].status = "success"

\* the turns of a history with the given role
TurnsOf(history, role) == {n \in 1..Len(history) : history[n].role = role}

\* two /chat calls for one session that neither found when it was entered
\* have both returned
BothChatsDone(t, u) ==
  /\ t # u
  /\ threads[t].endpoint = "/chat" /\ threads[u].endpoint = "/chat"
  /\ threads[t].pc = "done" /\ threads[u].pc = "done"
  /\ threads[t].response.code = 200 /\ threads[u].response.code = 200
  /\ threads[t].session_id = threads[u].session_id
  /\ threads[t].unseen /\ threads[u].unseen

\* C29 (as claimed): after two concurrent /chat calls for one unseen session
\* the history holds the system prompt, both user messages and both replies:
\* five entries, under every interleaving.
C29_BothRetained ==
  \A t \in Threads, u \in Threads :
    BothChatsDone(t, u) =>
      LET history == CHAT_SESSIONS[threads[t].session_id] IN
      /\ Len(history) = 5
      /\ history[1] = Turn("system", SYSTEM_PROMPT)
      /\ Cardinality(TurnsOf(history, "user")) = 2
      /\ Cardinality(TurnsOf(history, "assistant")) = 2
      /\ \E n \in TurnsOf(history, "user") : history[n].content = threads[t].message
      /\ \E n \in TurnsOf(history, "user") : history[n].content = threads[u].message

====
